---- MODULE Spec2Model ----
(***************************************************************************)
(* eazy-static: the eazy_static! procedural macro (src/src/lib.rs) and the *)
(* code it generates.                                                      *)
(*                                                                         *)
(* Two layers are modelled.                                                *)
(*   - Expansion time: EazyStatics::parse and eazy_static, pure functions  *)
(*     from a token sequence to the emitted items.  Checked under          *)
(*     SpecExpand, whose initial states draw the declaration block.        *)
(*   - Run time: the generated Deref::deref of every binding (a            *)
(*     std::sync::Once guarding a static mut VALUE pointer) and the        *)
(*     generated init_all, called by several threads.  Checked under Spec  *)
(*     (and FairSpec for liveness); the program that runs is the           *)
(*     expansion of a well-formed block.                                   *)
(***************************************************************************)
EXTENDS Integers, Sequences, FiniteSets, TLC

VARIABLES
    block,      \* the declaration block as written (sequence of declarations)
    input,      \* the macro's input TokenStream
    out,        \* the macro's output TokenStream (sequence of items)
    phase,      \* "source" before expansion, "expanded" after it
    behaviour,  \* run time: per binding, how the evaluation of its
                \*           initializer ended ("" while it has not)
    refs,       \* run time: per binding, the binding its initializer has
                \*           dereferenced, or NoRef
    ONCE,       \* run time: per binding, the state of its std::sync::Once
    VALUE,      \* run time: per binding, the static mut VALUE pointer
    allocs,     \* run time: per binding, the boxes its closure has allocated
    stack,      \* run time: per thread, its call stack (sequence of frames)
    status,     \* run time: per thread, "idle", "running", "dead"
                \*           (panicked) or "done" (its call returned)
    call,       \* run time: per thread, the call it makes and its result
    evals,      \* history: per binding, how often its initializer began
    seen        \* history: per binding, the pointer its initializer was
                \*          given by the deref it makes

vars == <<block, input, out, phase, behaviour, refs, ONCE, VALUE, allocs,
          stack, status, call, evals, seen>>

rtvars == <<behaviour, refs, ONCE, VALUE, allocs, stack, status, call, evals,
            seen>>

-----------------------------------------------------------------------------
(* Bounds *)

\* longest declaration block drawn as macro input
MaxDecls == 3
\* most outer attributes written in front of one declaration
MaxAttrs == 1
\* bindings declared in the block of the running program
NumBindings == 2
\* threads of the running program; each makes one call, a deref of a binding
\* or init_all, at a time of its choosing
NumThreads == 2

-----------------------------------------------------------------------------
(* Source text: declarations and their tokens *)

NamePool == <<"A", "B", "C", "D", "E", "F">>
TypePool == <<"TA", "TB", "TC", "TD", "TE", "TF">>

Vis == {"", "pub"}

\* Initializer expressions, by their outermost syn::Expr variant.
\*   Lit      1
\*   Tuple0   ()
\*   Tuple1   ((),)
\*   Paren    (())
\*   BlockE   { () }
Lit    == [variant |-> "Lit",   elems |-> <<>>]
Tuple0 == [variant |-> "Tuple", elems |-> <<>>]
Tuple1 == [variant |-> "Tuple", elems |-> <<"()">>]
Paren  == [variant |-> "Paren", elems |-> <<"()">>]
BlockE == [variant |-> "Block", elems |-> <<"()">>]
Exprs  == {Lit, Tuple0, Tuple1, Paren, BlockE}

\* What is wrong with a declaration as written (one token left out).
Defects == {"none", "static", "ref", ":", "type", "=", "expr", ";"}

\* The shapes a declaration can have: a well-formed one with any visibility
\* and initializer, one with outer attributes, or a malformed one.
Shapes ==
    { q \in [attrs : 0..MaxAttrs, vis : Vis, init : Exprs, defect : Defects] :
        /\ q.defect # "none" => (q.attrs = 0 /\ q.vis = "" /\ q.init = Lit)
        /\ q.attrs > 0 => (q.vis = "pub" /\ q.init = Lit) }

\* The declaration of shape q at position i of a block: names and types are
\* distinct per position.
DeclAt(i, q) ==
    [attrs |-> q.attrs, vis |-> q.vis, name |-> NamePool[i],
     ty |-> TypePool[i], init |-> q.init, defect |-> q.defect]

\* A token: a keyword or punctuation mark, an identifier or a type (one token
\* each, carrying its text), or a whole expression (carrying its syntax).
Tok(k, v) == [k |-> k, v |-> v]
ExprTok(e) == [k |-> "expr", e |-> e]

RECURSIVE Attrs(_)
Attrs(n) == IF n = 0 THEN <<>> ELSE <<Tok("attr", "")>> \o Attrs(n - 1)

Opt(defect, which, t) == IF defect = which THEN <<>> ELSE <<t>>

\* The tokens of one declaration:
\*   attribute* visibility static ref IDENT : TYPE = EXPR ;
DeclTokens(d) ==
    Attrs(d.attrs)
    \o (IF d.vis = "pub" THEN <<Tok("pub", "")>> ELSE <<>>)
    \o Opt(d.defect, "static", Tok("static", ""))
    \o Opt(d.defect, "ref", Tok("ref", ""))
    \o <<Tok("ident", d.name)>>
    \o Opt(d.defect, ":", Tok(":", ""))
    \o Opt(d.defect, "type", Tok("type", d.ty))
    \o Opt(d.defect, "=", Tok("=", ""))
    \o Opt(d.defect, "expr", ExprTok(d.init))
    \o Opt(d.defect, ";", Tok(";", ""))

RECURSIVE BlockTokens(_)
BlockTokens(b) ==
    IF b = <<>> THEN <<>> ELSE DeclTokens(Head(b)) \o BlockTokens(Tail(b))

-----------------------------------------------------------------------------
(* Expansion time: EazyStatics::parse *)

\* The kind of the next token, "eof" at the end of the input
\* (ParseStream::is_empty / the lookahead every syn parser starts with).
Peek(toks) == IF toks = <<>> THEN "eof" ELSE Head(toks).k

\* Attribute::parse_outer: consumes every leading outer attribute.
RECURSIVE ParseOuterAttrs(_)
ParseOuterAttrs(toks) ==
    IF Peek(toks) = "attr" THEN ParseOuterAttrs(Tail(toks)) ELSE toks

\* <Visibility as Parse>::parse: `pub` when written, inherited otherwise;
\* it never fails on these tokens.
ParseVisibility(toks) ==
    IF Peek(toks) = "pub" THEN [vis |-> "pub", rest |-> Tail(toks)]
    ELSE [vis |-> "", rest |-> toks]

\* A syn::Error anchored at the offending token; `rest` is what was left of
\* the input when the failing parser was entered.
ParseErr(rest) == [ok |-> FALSE, left |-> Len(rest)]

\* One iteration of the while loop of EazyStatics::parse: every `?` returns
\* the first error.
ParseDecl(toks) ==
    LET t1 == ParseOuterAttrs(toks)
        pv == ParseVisibility(t1)
        t2 == pv.rest
    IN  IF Peek(t2) # "static" THEN ParseErr(t2) ELSE
        LET t3 == Tail(t2) IN
        IF Peek(t3) # "ref" THEN ParseErr(t3) ELSE
        LET t4 == Tail(t3) IN
        IF Peek(t4) # "ident" THEN ParseErr(t4) ELSE
        LET t5 == Tail(t4) IN
        IF Peek(t5) # ":" THEN ParseErr(t5) ELSE
        LET t6 == Tail(t5) IN
        IF Peek(t6) # "type" THEN ParseErr(t6) ELSE
        LET t7 == Tail(t6) IN
        IF Peek(t7) # "=" THEN ParseErr(t7) ELSE
        LET t8 == Tail(t7) IN
        IF Peek(t8) # "expr" THEN ParseErr(t8) ELSE
        LET t9 == Tail(t8) IN
        IF Peek(t9) # ";" THEN ParseErr(t9) ELSE
        [ok |-> TRUE,
         static |-> [visibility |-> pv.vis, name |-> Head(t4).v,
                     ty |-> Head(t6).v, init |-> Head(t8).e],
         rest |-> Tail(t9)]

\* Variant of ParseLoop that recovers from an error: it stops at the
\* malformed declaration and keeps the declarations parsed before it.
RECURSIVE ParseLoopLenient(_, _)
ParseLoopLenient(toks, statics) ==
    IF toks = <<>> THEN [ok |-> TRUE, statics |-> statics]
    ELSE LET r == ParseDecl(toks)
         IN  IF r.ok THEN ParseLoopLenient(r.rest, Append(statics, r.static))
             ELSE [ok |-> TRUE, statics |-> statics]

\* The while loop of EazyStatics::parse, `statics` being the vector so far.
RECURSIVE ParseLoop(_, _)
ParseLoop(toks, statics) ==
    IF toks = <<>> THEN [ok |-> TRUE, statics |-> statics]
    ELSE LET r == ParseDecl(toks)
         IN  IF r.ok THEN ParseLoop(r.rest, Append(statics, r.static))
             ELSE r

\* Variant of parse that asks for at least one declaration: an empty input is
\* an unexpected end of input.
parseRejectEmpty(toks) ==
    IF toks = <<>> THEN ParseErr(toks) ELSE ParseLoop(toks, <<>>)

\* EazyStatics::parse
parse(toks) == ParseLoop(toks, <<>>)

-----------------------------------------------------------------------------
(* Expansion time: eazy_static *)

\* Variant of IsDegenerate that looks through the initializer: any expression
\* that is `()` or holds nothing but `()` counts as degenerate.
IsDegenerateDeep(init) ==
    \/ init.variant = "Tuple" /\ init.elems = <<>>
    \/ init.elems = <<"()">>

\* `if let Expr::Tuple(ref init) = init { if init.elems.is_empty() {..} }`
IsDegenerate(init) == init.variant = "Tuple" /\ init.elems = <<>>

\* Variant of Expanded that makes every marker public, whatever visibility
\* was declared.
ExpandedAllPub(s) ==
    << [item |-> "struct", vis |-> "pub", name |-> s.name],
       [item |-> "static", vis |-> "pub", name |-> s.name, ty |-> s.name],
       [item |-> "impl_deref", name |-> s.name, target |-> s.ty,
        init |-> s.init] >>

\* The items `expanded` holds for one binding: the marker struct, the marker
\* static of that type, and the impl of Deref whose deref() guards
\* VALUE = Box::into_raw(Box::new(init)) by ONCE.
Expanded(s) ==
    << [item |-> "struct", vis |-> s.visibility, name |-> s.name],
       [item |-> "static", vis |-> s.visibility, name |-> s.name,
        ty |-> s.name],
       [item |-> "impl_deref", name |-> s.name, target |-> s.ty,
        init |-> s.init] >>

\* `pub fn init_all() { #deref_all }`; a statement of the body,
\* `let _ = std::ops::Deref::deref(&NAME);`, is kept as NAME.
InitAllFn(deref_all) ==
    [item |-> "fn", vis |-> "pub", name |-> "init_all", params |-> <<>>,
     ret |-> "()", body |-> deref_all]

\* Variant of Generate that, at a degenerate initializer, returns what has
\* been staged so far instead of an empty stream.
RECURSIVE GenerateKeepStaged(_, _, _)
GenerateKeepStaged(rest, o, deref_all) ==
    IF rest = <<>> THEN o \o <<InitAllFn(deref_all)>>
    ELSE LET s == Head(rest)
         IN  IF IsDegenerate(s.init) THEN o
             ELSE GenerateKeepStaged(Tail(rest), o \o Expanded(s),
                                     Append(deref_all, s.name))

\* Variant of Generate that replaces deref_all by the statement of the
\* current binding instead of extending it.
RECURSIVE GenerateLastOnly(_, _, _)
GenerateLastOnly(rest, o, deref_all) ==
    IF rest = <<>> THEN o \o <<InitAllFn(deref_all)>>
    ELSE LET s == Head(rest)
         IN  IF IsDegenerate(s.init) THEN <<>>
             ELSE GenerateLastOnly(Tail(rest), o \o Expanded(s), <<s.name>>)

\* Variant of Generate that puts each new statement in front of deref_all.
RECURSIVE GenerateReversed(_, _, _)
GenerateReversed(rest, o, deref_all) ==
    IF rest = <<>> THEN o \o <<InitAllFn(deref_all)>>
    ELSE LET s == Head(rest)
         IN  IF IsDegenerate(s.init) THEN <<>>
             ELSE GenerateReversed(Tail(rest), o \o Expanded(s),
                                   <<s.name>> \o deref_all)

\* The `while let Some(..) = iter.next()` loop of eazy_static and what
\* follows it, `o` and `deref_all` being the two streams built so far.
RECURSIVE Generate(_, _, _)
Generate(rest, o, deref_all) ==
    IF rest = <<>> THEN o \o <<InitAllFn(deref_all)>>
    ELSE LET s == Head(rest)
         IN  IF IsDegenerate(s.init) THEN <<>>
             ELSE Generate(Tail(rest), o \o Expanded(s),
                           Append(deref_all, s.name))

\* parse_macro_input!: on Err the macro returns err.to_compile_error(), a
\* compile_error! invocation spanned at the offending token (`at` is its
\* 1-based position; one past the end for an unexpected end of input).
CompileError(toks, r) ==
    [item |-> "compile_error", at |-> Len(toks) - r.left + 1]

\* Variant of eazy_static that emits nothing for a block without
\* declarations.
EazyStaticSkipEmpty(toks) ==
    LET r == parse(toks)
    IN  IF ~r.ok THEN <<CompileError(toks, r)>>
        ELSE IF r.statics = <<>> THEN <<>>
        ELSE Generate(r.statics, <<>>, <<>>)

\* eazy_static
eazy_static(toks) ==
    LET r == parse(toks)
    IN  IF ~r.ok THEN <<CompileError(toks, r)>>
        ELSE Generate(r.statics, <<>>, <<>>)

\* What the expansion holds.
Items(o, kind) == { i \in 1..Len(o) : o[i].item = kind }
\* The bindings the expansion defines, and the body of its init_all.
Markers(o) == { o[i].name : i \in Items(o, "impl_deref") }
HasInitAll(o) == Items(o, "fn") # {}
InitAllBody(o) == o[CHOOSE i \in Items(o, "fn") : TRUE].body

-----------------------------------------------------------------------------
(* Expansion as a state machine: the compiler applies the macro once *)

NoRun ==
    /\ behaviour = <<>> /\ refs = <<>> /\ ONCE = <<>> /\ VALUE = <<>>
    /\ allocs = <<>> /\ stack = <<>> /\ status = <<>> /\ call = <<>>
    /\ evals = <<>> /\ seen = <<>>

InitExpand ==
    /\ \E n \in 0..MaxDecls : \E shapes \in [1..n -> Shapes] :
            block = [i \in 1..n |-> DeclAt(i, shapes[i])]
    /\ input = BlockTokens(block)
    /\ out = <<>>
    /\ phase = "source"
    /\ NoRun

Expand ==
    /\ phase = "source"
    /\ out' = eazy_static(input)
    /\ phase' = "expanded"
    /\ UNCHANGED <<block, input>>
    /\ UNCHANGED rtvars

NextExpand == Expand

SpecExpand == InitExpand /\ [][NextExpand]_vars

-----------------------------------------------------------------------------
(* Run time: the program that the expansion of a well-formed block defines *)

Threads == 1..NumThreads

\* The block of the running program: NumBindings well-formed declarations.
RunBlock ==
    [i \in 1..NumBindings |->
        DeclAt(i, [attrs |-> 0, vis |-> "pub", init |-> Lit,
                   defect |-> "none"])]

\* An initializer is an arbitrary expression.  What evaluating it does is
\* left open until it is evaluated: it may first dereference one binding of
\* the block (possibly its own), and then it returns a value ("ok"), panics
\* ("panic") or never returns ("hang").
Behaviours == {"ok", "panic", "hang"}
NoRef == ""

\* Pointers: `0 as *mut T`, and the address of the n-th box allocated for
\* binding b (Box::new never hands out the same live address twice, and no
\* box is ever freed).
Null == [b |-> "", n |-> 0]
Addr(b, n) == [b |-> b, n |-> n]

\* A stack frame.  f = "deref": b is the binding and pc the place in
\* deref().  f = "init_all": i is the statement of the body to run next.
DerefFrame(b) == [f |-> "deref", b |-> b, pc |-> "call_once", i |-> 0]
InitAllFrame == [f |-> "init_all", b |-> "", pc |-> "", i |-> 1]

\* A thread's call: op is the binding it dereferences or "init_all" ("" while
\* it has made no call), at the state of that binding's ONCE when the deref
\* arrived, late whether some init_all had returned when init_all was
\* called, ret the pointer behind the reference the deref returned.
NoCall == [op |-> "", at |-> "", late |-> FALSE, ret |-> Null]

Top(t) == stack[t][Len(stack[t])]
InDeref(t, pc) ==
    /\ status[t] = "running"
    /\ Top(t).f = "deref"
    /\ Top(t).pc = pc
Push(t, fr) == [stack EXCEPT ![t] = Append(@, fr)]
SetPc(t, pc) == [stack EXCEPT ![t][Len(stack[t])].pc = pc]

\* The places of deref() that are inside the closure call_once runs.
ClosurePcs == {"init", "dep", "rest", "hung"}

\* t is inside the closure that call_once runs for b.
RunningClosure(t, b) ==
    \E k \in 1..Len(stack[t]) :
        /\ stack[t][k].f = "deref"
        /\ stack[t][k].b = b
        /\ stack[t][k].pc \in ClosurePcs

\* Some call of init_all has returned.
InitAllReturned ==
    \E u \in Threads : status[u] = "done" /\ call[u].op = "init_all"

Init ==
    /\ block = RunBlock
    /\ input = BlockTokens(block)
    /\ out = eazy_static(input)
    /\ phase = "expanded"
    /\ behaviour = [b \in Markers(out) |-> ""]
    /\ refs = [b \in Markers(out) |-> NoRef]
    /\ ONCE = [b \in Markers(out) |-> "INCOMPLETE"]
    /\ VALUE = [b \in Markers(out) |-> Null]
    /\ allocs = [b \in Markers(out) |-> 0]
    /\ stack = [t \in Threads |-> <<>>]
    /\ status = [t \in Threads |-> "idle"]
    /\ call = [t \in Threads |-> NoCall]
    /\ evals = [b \in Markers(out) |-> 0]
    /\ seen = [b \in Markers(out) |-> Null]

\* Variant of InitAllAt that passes over a binding another caller is
\* initialising at that moment instead of waiting for it.
RECURSIVE InitAllAtSkipRunning(_)
InitAllAtSkipRunning(i) ==
    IF i > Len(InitAllBody(out)) THEN <<>>
    ELSE IF ONCE[InitAllBody(out)[i]] = "RUNNING"
         THEN InitAllAtSkipRunning(i + 1)
         ELSE << [InitAllFrame EXCEPT !.i = i],
                 DerefFrame(InitAllBody(out)[i]) >>

\* init_all about to run statement i of its body,
\* `let _ = std::ops::Deref::deref(&NAME);`: the frames of init_all and of
\* the deref it enters, or no frame when the body is at its end and
\* init_all returns (init_all is only ever called by a thread itself).
InitAllAt(i) ==
    IF i > Len(InitAllBody(out)) THEN <<>>
    ELSE << [InitAllFrame EXCEPT !.i = i], DerefFrame(InitAllBody(out)[i]) >>

\* Variant of CallDeref in which the deref of one binding forces every
\* binding of the block, as init_all does.
CallDerefEager(t, b) ==
    /\ status[t] = "idle"
    /\ b \in Markers(out)
    /\ stack' = [stack EXCEPT ![t] = InitAllAt(1)]
    /\ status' = [status EXCEPT ![t] = "running"]
    /\ call' = [call EXCEPT ![t] =
                    [op |-> b, at |-> ONCE[b], late |-> FALSE, ret |-> Null]]
    /\ UNCHANGED <<block, input, out, phase, behaviour, refs, ONCE, VALUE,
                   allocs, evals, seen>>

\* A thread evaluates *NAME: Deref::deref(&NAME) is entered.
CallDeref(t, b) ==
    /\ status[t] = "idle"
    /\ b \in Markers(out)
    /\ stack' = Push(t, DerefFrame(b))
    /\ status' = [status EXCEPT ![t] = "running"]
    /\ call' = [call EXCEPT ![t] =
                    [op |-> b, at |-> ONCE[b], late |-> FALSE, ret |-> Null]]
    /\ UNCHANGED <<block, input, out, phase, behaviour, refs, ONCE, VALUE,
                   allocs, evals, seen>>

\* A thread calls init_all().
CallInitAll(t) ==
    /\ status[t] = "idle"
    /\ HasInitAll(out)
    /\ stack' = [stack EXCEPT ![t] = InitAllAt(1)]
    /\ status' = [status EXCEPT ![t] =
                    IF InitAllAt(1) = <<>> THEN "done" ELSE "running"]
    /\ call' = [call EXCEPT ![t] =
                    [op |-> "init_all", at |-> "", late |-> InitAllReturned,
                     ret |-> Null]]
    /\ UNCHANGED <<block, input, out, phase, behaviour, refs, ONCE, VALUE,
                   allocs, evals, seen>>

\* Variant of OnceFast with no guard at all: the closure is run again although
\* ONCE is complete.
OnceFastRerun(t) ==
    /\ InDeref(t, "call_once")
    /\ ONCE[Top(t).b] = "COMPLETE"
    /\ evals' = [evals EXCEPT ![Top(t).b] = @ + 1]
    /\ stack' = SetPc(t, "init")
    /\ UNCHANGED <<block, input, out, phase, behaviour, refs, ONCE, VALUE,
                   allocs, status, call, seen>>

\* Variant of OnceFast that does not wait: call_once also returns while
\* another caller is still running the closure.
OnceFastEarly(t) ==
    /\ InDeref(t, "call_once")
    /\ ONCE[Top(t).b] \in {"COMPLETE", "RUNNING"}
    /\ stack' = SetPc(t, "value")
    /\ UNCHANGED <<block, input, out, phase, behaviour, refs, ONCE, VALUE,
                   allocs, status, call, evals, seen>>

\* Variant of OnceFast with a timeout: a caller that waits for a closure which
\* never returns gives up waiting and goes on.
OnceFastTimeout(t) ==
    /\ InDeref(t, "call_once")
    /\ \/ ONCE[Top(t).b] = "COMPLETE"
       \/ ONCE[Top(t).b] = "RUNNING" /\ behaviour[Top(t).b] = "hang"
    /\ stack' = SetPc(t, "value")
    /\ UNCHANGED <<block, input, out, phase, behaviour, refs, ONCE, VALUE,
                   allocs, status, call, evals, seen>>

\* ONCE.call_once, ONCE complete: returns at once without running the closure.
OnceFast(t) ==
    /\ InDeref(t, "call_once")
    /\ ONCE[Top(t).b] = "COMPLETE"
    /\ stack' = SetPc(t, "value")
    /\ UNCHANGED <<block, input, out, phase, behaviour, refs, ONCE, VALUE,
                   allocs, status, call, evals, seen>>

\* Variant of OnceBegin that does not exclude other callers: a caller that
\* finds ONCE running enters the closure as well.
OnceBeginUnguarded(t) ==
    /\ InDeref(t, "call_once")
    /\ ONCE[Top(t).b] \in {"INCOMPLETE", "RUNNING"}
    /\ ONCE' = [ONCE EXCEPT ![Top(t).b] = "RUNNING"]
    /\ evals' = [evals EXCEPT ![Top(t).b] = @ + 1]
    /\ stack' = SetPc(t, "init")
    /\ UNCHANGED <<block, input, out, phase, behaviour, refs, VALUE, allocs,
                   status, call, seen>>

\* ONCE.call_once, ONCE incomplete: this caller takes the guard and enters
\* the closure `|| VALUE = Box::into_raw(Box::new(init))`, so the evaluation
\* of the initializer begins.  (While ONCE is running, every other caller
\* waits: no action of call_once is enabled for it.)
OnceBegin(t) ==
    /\ InDeref(t, "call_once")
    /\ ONCE[Top(t).b] = "INCOMPLETE"
    /\ ONCE' = [ONCE EXCEPT ![Top(t).b] = "RUNNING"]
    /\ evals' = [evals EXCEPT ![Top(t).b] = @ + 1]
    /\ stack' = SetPc(t, "init")
    /\ UNCHANGED <<block, input, out, phase, behaviour, refs, VALUE, allocs,
                   status, call, seen>>

\* A panic unwinds the thread's stack: every closure of call_once it leaves
\* poisons its ONCE (the drop of the guard call_once holds), and the thread
\* dies.
Poisoned(t) ==
    [b \in DOMAIN ONCE |->
        IF RunningClosure(t, b) THEN "POISONED" ELSE ONCE[b]]
Panic(t) ==
    /\ ONCE' = Poisoned(t)
    /\ stack' = [stack EXCEPT ![t] = <<>>]
    /\ status' = [status EXCEPT ![t] = "dead"]

\* Variant of OncePoisoned that ignores the poison, as call_once_force does:
\* the caller takes the guard and runs the closure again.
OncePoisonedRetry(t) ==
    /\ InDeref(t, "call_once")
    /\ ONCE[Top(t).b] = "POISONED"
    /\ ONCE' = [ONCE EXCEPT ![Top(t).b] = "RUNNING"]
    /\ evals' = [evals EXCEPT ![Top(t).b] = @ + 1]
    /\ stack' = SetPc(t, "init")
    /\ UNCHANGED <<block, input, out, phase, behaviour, refs, VALUE, allocs,
                   status, call, seen>>

\* ONCE.call_once, ONCE poisoned by a closure that panicked: call_once panics.
OncePoisoned(t) ==
    /\ InDeref(t, "call_once")
    /\ ONCE[Top(t).b] = "POISONED"
    /\ Panic(t)
    /\ UNCHANGED <<block, input, out, phase, behaviour, refs, VALUE, allocs,
                   call, evals, seen>>

\* Variant of OnceReentrant with a re-entrant guard: the thread that runs the
\* closure is let through when it calls call_once on the same ONCE again.
OnceReentrantPass(t) ==
    /\ InDeref(t, "call_once")
    /\ ONCE[Top(t).b] = "RUNNING"
    /\ RunningClosure(t, Top(t).b)
    /\ stack' = SetPc(t, "value")
    /\ UNCHANGED <<block, input, out, phase, behaviour, refs, ONCE, VALUE,
                   allocs, status, call, evals, seen>>

\* ONCE.call_once called from inside the closure the same ONCE is running:
\* std leaves the outcome open between a deadlock and a panic.  The deadlock
\* is the wait above; this is the panic.
OnceReentrant(t) ==
    /\ InDeref(t, "call_once")
    /\ ONCE[Top(t).b] = "RUNNING"
    /\ RunningClosure(t, Top(t).b)
    /\ Panic(t)
    /\ UNCHANGED <<block, input, out, phase, behaviour, refs, VALUE, allocs,
                   call, evals, seen>>

\* Variant of InitDeref that reads the slot of r directly, without going
\* through r's guarded deref.
InitDerefUnguarded(t, r) ==
    /\ InDeref(t, "init")
    /\ r \in Markers(out)
    /\ refs' = [refs EXCEPT ![Top(t).b] = r]
    /\ seen' = [seen EXCEPT ![Top(t).b] = VALUE[r]]
    /\ stack' = SetPc(t, "rest")
    /\ UNCHANGED <<block, input, out, phase, behaviour, ONCE, VALUE, allocs,
                   status, call, evals>>

\* The initializer dereferences binding r of the block.
InitDeref(t, r) ==
    /\ InDeref(t, "init")
    /\ r \in Markers(out)
    /\ refs' = [refs EXCEPT ![Top(t).b] = r]
    /\ stack' = [stack EXCEPT ![t] =
                    Append([@ EXCEPT ![Len(@)].pc = "dep"], DerefFrame(r))]
    /\ UNCHANGED <<block, input, out, phase, behaviour, ONCE, VALUE, allocs,
                   status, call, evals, seen>>

\* The initializer is past the deref it makes, if it makes one.
InitReady(t) == InDeref(t, "init") \/ InDeref(t, "rest")

\* The initializer returns its value: Box::new allocates, Box::into_raw
\* yields the address, and the closure stores it into VALUE.
InitStore(t) ==
    /\ InitReady(t)
    /\ behaviour' = [behaviour EXCEPT ![Top(t).b] = "ok"]
    /\ allocs' = [allocs EXCEPT ![Top(t).b] = @ + 1]
    /\ VALUE' = [VALUE EXCEPT ![Top(t).b] =
                    Addr(Top(t).b, allocs[Top(t).b] + 1)]
    /\ stack' = SetPc(t, "done")
    /\ UNCHANGED <<block, input, out, phase, refs, ONCE, status, call, evals,
                   seen>>

\* The initializer panics.
InitPanic(t) ==
    /\ InitReady(t)
    /\ behaviour' = [behaviour EXCEPT ![Top(t).b] = "panic"]
    /\ Panic(t)
    /\ UNCHANGED <<block, input, out, phase, refs, VALUE, allocs, call,
                   evals, seen>>

\* The initializer never returns (it loops or blocks for ever): the thread
\* stays in the closure, and no step of it follows.
InitHang(t) ==
    /\ InitReady(t)
    /\ behaviour' = [behaviour EXCEPT ![Top(t).b] = "hang"]
    /\ stack' = SetPc(t, "hung")
    /\ UNCHANGED <<block, input, out, phase, refs, ONCE, VALUE, allocs,
                   status, call, evals, seen>>

\* The closure has returned: call_once marks ONCE complete and wakes the
\* waiting callers.
OnceComplete(t) ==
    /\ InDeref(t, "done")
    /\ ONCE' = [ONCE EXCEPT ![Top(t).b] = "COMPLETE"]
    /\ stack' = SetPc(t, "value")
    /\ UNCHANGED <<block, input, out, phase, behaviour, refs, VALUE, allocs,
                   status, call, evals, seen>>

\* The caller's stack once a deref it made has returned: init_all goes on to
\* its next statement, an initializer to its rest.
Resume(s) ==
    IF s = <<>> THEN s
    ELSE IF s[Len(s)].f = "init_all" THEN InitAllAt(s[Len(s)].i + 1)
    ELSE [s EXCEPT ![Len(s)].pc = "rest"]

\* Variant of DerefReturn that takes the pointer out of the slot: VALUE is
\* reset to null when the reference is handed out.
DerefReturnReset(t) ==
    /\ InDeref(t, "value")
    /\ LET n == Len(stack[t])
           ptr == VALUE[Top(t).b]
           left == Resume(SubSeq(stack[t], 1, n - 1))
       IN  /\ stack' = [stack EXCEPT ![t] = left]
           /\ status' = [status EXCEPT ![t] =
                            IF left = <<>> THEN "done" ELSE "running"]
           /\ call' = IF n = 1 THEN [call EXCEPT ![t].ret = ptr] ELSE call
           /\ seen' = IF n > 1 /\ stack[t][n - 1].f = "deref"
                      THEN [seen EXCEPT ![stack[t][n - 1].b] = ptr]
                      ELSE seen
    /\ VALUE' = [VALUE EXCEPT ![Top(t).b] = Null]
    /\ UNCHANGED <<block, input, out, phase, behaviour, refs, ONCE, allocs,
                   evals>>

\* `&*VALUE`: deref returns the reference made from the pointer it reads, to
\* the thread itself, to init_all (which discards it) or to the initializer
\* that made the call.  (Of a null VALUE this is undefined behaviour; the
\* model hands the null pointer to the caller.)
DerefReturn(t) ==
    /\ InDeref(t, "value")
    /\ LET n == Len(stack[t])
           ptr == VALUE[Top(t).b]
           left == Resume(SubSeq(stack[t], 1, n - 1))
       IN  /\ stack' = [stack EXCEPT ![t] = left]
           /\ status' = [status EXCEPT ![t] =
                            IF left = <<>> THEN "done" ELSE "running"]
           /\ call' = IF n = 1 THEN [call EXCEPT ![t].ret = ptr] ELSE call
           /\ seen' = IF n > 1 /\ stack[t][n - 1].f = "deref"
                      THEN [seen EXCEPT ![stack[t][n - 1].b] = ptr]
                      ELSE seen
    /\ UNCHANGED <<block, input, out, phase, behaviour, refs, ONCE, VALUE,
                   allocs, evals>>

\* What a thread does once it is inside a call.
Step(t) ==
    \/ OnceFast(t)
    \/ OnceBegin(t)
    \/ OncePoisoned(t)
    \/ \E r \in Markers(out) : InitDeref(t, r)
    \/ InitStore(t)
    \/ InitPanic(t)
    \/ InitHang(t)
    \/ OnceComplete(t)
    \/ DerefReturn(t)

Next ==
    \/ \E t \in Threads : \E b \in Markers(out) : CallDeref(t, b)
    \/ \E t \in Threads : CallInitAll(t)
    \/ \E t \in Threads : OnceFast(t)
    \/ \E t \in Threads : OnceBegin(t)
    \/ \E t \in Threads : OncePoisoned(t)
    \/ \E t \in Threads : OnceReentrant(t)
    \/ \E t \in Threads : \E r \in Markers(out) : InitDeref(t, r)
    \/ \E t \in Threads : InitStore(t)
    \/ \E t \in Threads : InitPanic(t)
    \/ \E t \in Threads : InitHang(t)
    \/ \E t \in Threads : OnceComplete(t)
    \/ \E t \in Threads : DerefReturn(t)

Spec == Init /\ [][Next]_vars

\* The operating system runs every thread that can take a step; whether a
\* thread makes its call, and whether a re-entrant call_once panics rather
\* than deadlocks, is left open.
FairSpec == Spec /\ \A t \in Threads : WF_vars(Step(t))

-----------------------------------------------------------------------------
(* Properties of the expansion (SpecExpand) *)

\* The block as written has no malformed declaration.
WellFormed(blk) == \A i \in 1..Len(blk) : blk[i].defect = "none"
\* The positions of the block whose initializer is written `()`.
DegenerateAt(blk) == { i \in 1..Len(blk) : blk[i].init = Tuple0 }
\* The first malformed declaration of a block that has one.
FirstDefect(blk) ==
    CHOOSE k \in 1..Len(blk) :
        /\ blk[k].defect # "none"
        /\ \A j \in 1..(k - 1) : blk[j].defect = "none"
\* Where, among the tokens of a malformed declaration, the token stands that
\* the parser cannot accept: the place of the token left out.
DefectOffset(d) ==
    d.attrs + (IF d.vis = "pub" THEN 1 ELSE 0)
    + CASE d.defect = "static" -> 1
        [] d.defect = "ref"    -> 2
        [] d.defect = ":"      -> 4
        [] d.defect = "type"   -> 5
        [] d.defect = "="      -> 6
        [] d.defect = "expr"   -> 7
        [] d.defect = ";"      -> 8

C6_EmptyBlock ==
    (phase = "expanded" /\ block = <<>>)
        => /\ Len(out) = 1
           /\ out[1].item = "fn"
           /\ out[1].name = "init_all"
           /\ out[1].body = <<>>
           /\ Markers(out) = {}
           /\ Items(out, "struct") = {}
           /\ Items(out, "compile_error") = {}

\* The empty block has been expanded.
C6_Witness == phase = "expanded" /\ input = <<>> /\ out # <<>>

\* C7: a block of n well-formed bindings, none with initializer `()`,
\* expands to n groups, in source order, of marker declaration (struct and
\* static) and Deref implementation, each with the visibility, name, type and
\* initializer declared for that binding, followed by one init_all, which is
\* public whatever the bindings' visibility, has no parameter and returns
\* nothing.
C7_ExpansionShape ==
    (phase = "expanded" /\ WellFormed(block) /\ DegenerateAt(block) = {})
        => LET n == Len(block) IN
           /\ Len(out) = 3 * n + 1
           /\ \A i \in 1..n :
                /\ out[3 * i - 2].item = "struct"
                /\ out[3 * i - 2].vis = block[i].vis
                /\ out[3 * i - 2].name = block[i].name
                /\ out[3 * i - 1].item = "static"
                /\ out[3 * i - 1].vis = block[i].vis
                /\ out[3 * i - 1].name = block[i].name
                /\ out[3 * i].item = "impl_deref"
                /\ out[3 * i].name = block[i].name
                /\ out[3 * i].target = block[i].ty
                /\ out[3 * i].init = block[i].init
           /\ out[3 * n + 1].item = "fn"
           /\ out[3 * n + 1].name = "init_all"
           /\ out[3 * n + 1].vis = "pub"
           /\ out[3 * n + 1].params = <<>>
           /\ out[3 * n + 1].ret = "()"

\* A block of three bindings of both visibilities has been expanded.
C7_Witness ==
    /\ phase = "expanded"
    /\ Len(block) = 3
    /\ WellFormed(block)
    /\ DegenerateAt(block) = {}
    /\ block[1].vis = "" /\ block[2].vis = "pub" /\ block[3].vis = ""
    /\ Len(out) = 10

\* C8: when declaration k is the first malformed one, parsing stops there:
\* the expansion is the single compile error anchored at the offending token
\* of declaration k, and holds no marker, no Deref implementation and no
\* init_all, not even for the declarations before k.
C8_ParseErrorAborts ==
    (phase = "expanded" /\ ~WellFormed(block))
        => LET k == FirstDefect(block) IN
           /\ Len(out) = 1
           /\ out[1].item = "compile_error"
           /\ out[1].at = Len(BlockTokens(SubSeq(block, 1, k - 1)))
                            + DefectOffset(block[k])
           /\ Items(out, "struct") = {}
           /\ Items(out, "static") = {}
           /\ Items(out, "impl_deref") = {}
           /\ Items(out, "fn") = {}

\* A block whose third declaration is malformed, after two that are not, has
\* been expanded.
C8_Witness ==
    /\ phase = "expanded"
    /\ Len(block) = 3
    /\ block[1].defect = "none" /\ block[2].defect = "none"
    /\ DegenerateAt(block) = {}
    /\ block[3].defect = ";"
    /\ Items(out, "compile_error") # {}

-----------------------------------------------------------------------------
(* Properties of the generated code (Spec, FairSpec) *)

\* The names declared in the block, in source order.
Declared == [i \in 1..Len(block) |-> block[i].name]
\* Thread t's call was a deref of b and has returned.
DerefDone(t, b) == status[t] = "done" /\ call[t].op = b
\* Thread t's call was init_all and has returned.
InitAllDone(t) == status[t] = "done" /\ call[t].op = "init_all"
\* The initializer of b has returned and its boxed value is stored.
Initialised(b) == VALUE[b] # Null /\ behaviour[b] = "ok"
\* Thread t is about to return from a deref of b (`&*VALUE`).
Returning(t, b) ==
    \E k \in 1..Len(stack[t]) :
        /\ stack[t][k].f = "deref"
        /\ stack[t][k].b = b
        /\ stack[t][k].pc = "value"

\* C1: for every binding, however many threads call its deref while it is
\* not yet initialised and however they interleave, the initializer is
\* evaluated once and no more, and every one of those derefs that returns
\* yields the stored, fully initialised value; no deref returns while VALUE
\* is null.
C1_RaceSafety ==
    \A b \in Markers(out) :
        /\ evals[b] <= 1
        /\ \A t \in Threads :
            /\ (DerefDone(t, b) /\ call[t].at # "COMPLETE")
                  => /\ evals[b] = 1
                     /\ Initialised(b)
                     /\ ONCE[b] = "COMPLETE"
                     /\ call[t].ret = VALUE[b]
            /\ Returning(t, b) => Initialised(b)

\* Two threads that both called deref of the same binding before it was
\* initialised have both returned.
C1_Witness ==
    \E b \in Markers(out) : \E t, u \in Threads :
        /\ t # u
        /\ DerefDone(t, b) /\ call[t].at = "INCOMPLETE"
        /\ DerefDone(u, b) /\ call[u].at # "COMPLETE"

\* C2: whatever derefs are made of a binding, its initializer is evaluated
\* once in total, and all the derefs that return yield the same pointer: the
\* one the first deref stored.
C2_SameIdentity ==
    \A b \in Markers(out) :
        /\ evals[b] <= 1
        /\ allocs[b] <= 1
        /\ \A t \in Threads :
            DerefDone(t, b) => /\ evals[b] = 1
                               /\ call[t].ret = Addr(b, 1)
        /\ \A t, u \in Threads :
            (DerefDone(t, b) /\ DerefDone(u, b)) => call[t].ret = call[u].ret

\* A deref made after the binding was initialised has returned, as has the
\* deref that initialised it.
C2_Witness ==
    \E b \in Markers(out) : \E t, u \in Threads :
        /\ DerefDone(t, b) /\ call[t].at = "INCOMPLETE"
        /\ DerefDone(u, b) /\ call[u].at = "COMPLETE"

\* C3: when a call of init_all has returned, every binding declared in the
\* block is initialised, whichever of them earlier derefs had initialised; an
\* initializer is only ever evaluated for a binding that is not initialised;
\* and once a call of init_all has returned, no later call of it (nor
\* anything else) evaluates an initializer.
C3_InitAllForcesAll ==
    /\ [](InitAllReturned =>
            \A i \in 1..Len(Declared) :
                /\ Declared[i] \in Markers(out)
                /\ Initialised(Declared[i])
                /\ ONCE[Declared[i]] = "COMPLETE"
                /\ evals[Declared[i]] = 1)
    /\ [][\A b \in Markers(out) :
            evals'[b] # evals[b] =>
                /\ ONCE[b] = "INCOMPLETE"
                /\ VALUE[b] = Null
                /\ ~InitAllReturned]_vars

\* A call of init_all made after another call of it had returned has itself
\* returned.
C3_Witness ==
    \E t \in Threads : InitAllDone(t) /\ call[t].late

\* Binding b has been asked for: by a thread's own deref, by a call of
\* init_all, or by an initializer that dereferences it.
Demanded(b) ==
    \/ \E t \in Threads : call[t].op \in {b, "init_all"}
    \/ \E a \in Markers(out) : refs[a] = b

\* C4: initialization is lazy and independent per binding.  Before any call
\* no initializer has been evaluated, and the initializer of a binding is
\* only evaluated when that binding has been asked for: a deref of A leaves
\* every other binding B uninitialised unless A's initializer dereferences B.
C4_LazyIndependent ==
    /\ (\A t \in Threads : status[t] = "idle") =>
            \A b \in Markers(out) :
                evals[b] = 0 /\ VALUE[b] = Null /\ ONCE[b] = "INCOMPLETE"
    /\ \A b \in Markers(out) :
            ~Demanded(b) =>
                evals[b] = 0 /\ VALUE[b] = Null /\ ONCE[b] = "INCOMPLETE"

\* A deref of one binding has returned and another binding, which nothing
\* asked for, is still untouched.
C4_Witness ==
    \E a, b \in Markers(out) : \E t \in Threads :
        /\ a # b
        /\ DerefDone(t, a)
        /\ Initialised(a)
        /\ ~Demanded(b)
        /\ ONCE[b] = "INCOMPLETE"

\* Thread t called init_all when nothing had been accessed, and no other
\* thread has made a call.
InitAllAlone(t) ==
    /\ call[t].op = "init_all"
    /\ \A u \in Threads \ {t} : status[u] = "idle"

\* The initializers are evaluated in declaration order, one after the other:
\* when the initializer of a binding has begun, the initializer of every
\* binding declared before it has returned.
InDeclarationOrder ==
    \A i, j \in 1..Len(Declared) :
        (j < i /\ evals[Declared[i]] > 0) => Initialised(Declared[j])

\* No initializer has dereferenced a binding declared after its own.
NoForwardRef ==
    \A i, j \in 1..Len(Declared) : i < j => refs[Declared[i]] # Declared[j]

\* C9 as stated: init_all dereferences the bindings in source order, and a
\* call of it made alone, before any access, evaluates the initializers in
\* declaration order, each completing before the next begins.
C9_Original ==
    /\ HasInitAll(out) /\ InitAllBody(out) = Declared
    /\ \A t \in Threads : InitAllAlone(t) => InDeclarationOrder

\* C9, amended: init_all dereferences the bindings in source order, and a
\* call of it made alone, before any access, evaluates the initializers in
\* declaration order, each completing before the next begins, provided no
\* initializer dereferences a binding declared after its own.
C9_SourceOrder ==
    /\ HasInitAll(out) /\ InitAllBody(out) = Declared
    /\ \A t \in Threads :
            (InitAllAlone(t) /\ NoForwardRef) => InDeclarationOrder

\* A call of init_all made alone has returned, one initializer having
\* dereferenced an earlier binding.
C9_Witness ==
    \E t \in Threads :
        /\ InitAllAlone(t)
        /\ InitAllDone(t)
        /\ NoForwardRef
        /\ \E i \in 2..Len(Declared) : refs[Declared[i]] = Declared[1]

\* The names of the bindings of the running program.
RunNames == { NamePool[i] : i \in 1..NumBindings }

\* Thread t is in call_once for b while another thread runs the closure.
Blocked(t, b) ==
    /\ InDeref(t, "call_once")
    /\ Top(t).b = b
    /\ ONCE[b] = "RUNNING"
    /\ ~RunningClosure(t, b)

\* Thread t is alive and no longer in call_once for b or about to return
\* from the deref of b.
Passed(t, b) ==
    /\ status[t] \in {"running", "done"}
    /\ ~(InDeref(t, "call_once") /\ Top(t).b = b)
    /\ ~(InDeref(t, "value") /\ Top(t).b = b)

\* C10: a deref that arrives while another thread runs the guarded
\* initialization of the binding blocks: it takes no step while ONCE is
\* running and does not return before the initialization is complete.  Unless
\* the initializer fails to return a value (VALUE stays null for ever), the
\* blocked deref eventually returns, and what it returns is the one stored,
\* initialised value.
C10_BlockedUntilComplete ==
    /\ [][\A t \in Threads : \A b \in RunNames :
            Blocked(t, b) =>
                stack'[t] = stack[t] /\ status'[t] = status[t]]_vars
    /\ [](\A t \in Threads : \A b \in RunNames :
            /\ Returning(t, b) => (Initialised(b) /\ ONCE[b] = "COMPLETE")
            /\ (DerefDone(t, b) /\ call[t].at = "RUNNING")
                  => (Initialised(b) /\ call[t].ret = VALUE[b]))
    /\ \A t \in Threads : \A b \in RunNames :
            [](Blocked(t, b) => ([](VALUE[b] = Null) \/ <>Passed(t, b)))

\* A deref that arrived while the binding's ONCE was running has returned
\* the initialised value.
C10_Witness ==
    \E t \in Threads : \E b \in Markers(out) :
        /\ DerefDone(t, b)
        /\ call[t].at = "RUNNING"
        /\ call[t].ret = VALUE[b]
        /\ Initialised(b)

\* C11: the slot VALUE of a binding is written at most once.  It is null
\* until the initializer of the binding has run, the one write it ever gets
\* is made inside the guarded closure and puts a freshly allocated box into
\* the null slot, and from then on no step of a deref or of init_all assigns
\* it again or resets it; no binding ever has more than one box allocated.
C11_WriteOnce ==
    /\ [](\A b \in RunNames :
            /\ allocs[b] <= 1
            /\ evals[b] = 0 => VALUE[b] = Null
            /\ VALUE[b] = (IF allocs[b] = 0 THEN Null ELSE Addr(b, 1)))
    /\ [][\A b \in RunNames :
            /\ VALUE'[b] # VALUE[b] =>
                /\ VALUE[b] = Null
                /\ ONCE[b] = "RUNNING"
                /\ allocs'[b] = allocs[b] + 1
                /\ VALUE'[b] = Addr(b, allocs'[b])
            /\ allocs'[b] # allocs[b] => VALUE'[b] # VALUE[b]]_vars

\* A binding has its box stored, and a deref of it and a call of init_all
\* have both returned since.
C11_Witness ==
    \E b \in Markers(out) : \E t, u \in Threads :
        /\ VALUE[b] = Addr(b, 1)
        /\ allocs[b] = 1
        /\ DerefDone(t, b)
        /\ InitAllDone(u)

\* The bindings the evaluation of a's initializer has come to depend on: a
\* itself and everything reached from it through the derefs initializers made.
RECURSIVE ChainFrom(_, _)
ChainFrom(S, n) ==
    IF n = 0 THEN S
    ELSE ChainFrom(S \cup ({ refs[c] : c \in S } \ {NoRef}), n - 1)
Chain(a) == ChainFrom({a}, NumBindings)

\* The initializer of b has dereferenced a binding whose own initialization
\* depends on b.
OnCycle(b) == refs[b] # NoRef /\ b \in Chain(refs[b])

\* Some initializer that a depends on has panicked, does not return, or is on
\* a dependency cycle.
Trouble(a) ==
    \E c \in Chain(a) : behaviour[c] \in {"panic", "hang"} \/ OnCycle(c)

\* Thread t is inside a deref of b.
HasDerefFrame(t, b) ==
    \E k \in 1..Len(stack[t]) : stack[t][k].f = "deref" /\ stack[t][k].b = b

\* C12: there is no timeout and no cancellation.  Once the initializer of a
\* binding fails to return, its ONCE stays running and its VALUE null for
\* ever; the deref that started it, every other deref of the binding and
\* every call of init_all stay where they are and never return.  Derefs of
\* the other bindings are not affected: every deref of a binding returns,
\* unless an initializer that binding depends on panics, does not return or
\* is on a dependency cycle.
C12_NoTimeout ==
    /\ [](\A b \in RunNames :
            behaviour[b] = "hang" =>
                /\ ONCE[b] = "RUNNING"
                /\ VALUE[b] = Null
                /\ \A t \in Threads :
                    /\ ~DerefDone(t, b)
                    /\ ~Returning(t, b)
                    /\ ~InitAllDone(t))
    /\ [][\A b \in RunNames :
            behaviour[b] = "hang" =>
                /\ behaviour'[b] = "hang"
                /\ \A t \in Threads :
                    HasDerefFrame(t, b) => stack'[t] = stack[t]]_vars
    /\ \A t \in Threads : \A a \in RunNames :
            []((status[t] = "running" /\ call[t].op = a)
                  => <>(DerefDone(t, a) \/ Trouble(a)))

\* While one thread is stuck in an initializer that does not return, and
\* with it the call of init_all it made, a deref of another binding has
\* returned its value.
C12_Witness ==
    \E a, b \in Markers(out) : \E t, u \in Threads :
        /\ a # b
        /\ behaviour[b] = "hang"
        /\ call[u].op = "init_all" /\ status[u] = "running"
        /\ HasDerefFrame(u, b)
        /\ DerefDone(t, a)
        /\ call[t].ret = VALUE[a] /\ Initialised(a)

\* C13 as stated: a block without declarations produces no output, and is
\* not an error.
C13_Original ==
    (phase = "expanded" /\ block = <<>>)
        => /\ parse(input).ok
           /\ out = <<>>

\* C13, amended: a block without declarations is not an error and produces
\* no marker; what it produces is the init_all function alone, with nothing
\* in its body.
C13_EmptyNotError ==
    (phase = "expanded" /\ block = <<>>)
        => /\ parse(input).ok
           /\ parse(input).statics = <<>>
           /\ out = <<InitAllFn(<<>>)>>

\* The block without declarations has been parsed and expanded, and the
\* expansion defines init_all.
C13_Witness ==
    /\ phase = "expanded"
    /\ block = <<>>
    /\ parse(input).ok
    /\ HasInitAll(out)

\* Thread t is in init_all, at statement i of its body.
InInitAllAt(t, i) ==
    /\ stack[t] # <<>>
    /\ stack[t][1].f = "init_all"
    /\ stack[t][1].i = i

\* C14: init_all is safe when called concurrently with itself and with
\* derefs of single bindings.  However the threads interleave, no initializer
\* is evaluated twice; a call of init_all that has reached statement i of its
\* body has every binding before it initialised, by itself or by another
\* thread; and a call of init_all that has returned has every binding of the
\* block initialised, each initializer having been evaluated once.
C14_ConcurrentInitAll ==
    /\ \A b \in Markers(out) : evals[b] <= 1
    /\ \A t \in Threads : \A i \in 1..Len(Declared) :
            InInitAllAt(t, i) =>
                \A j \in 1..(i - 1) :
                    /\ Initialised(Declared[j])
                    /\ ONCE[Declared[j]] = "COMPLETE"
    /\ \A t \in Threads :
            InitAllDone(t) =>
                \A b \in Markers(out) :
                    /\ Initialised(b)
                    /\ ONCE[b] = "COMPLETE"
                    /\ evals[b] = 1
                    /\ allocs[b] = 1

\* Two calls of init_all that ran at the same time (neither was made after
\* the other had returned) have both returned.
C14_Witness ==
    \E t, u \in Threads :
        /\ t # u
        /\ InitAllDone(t) /\ ~call[t].late
        /\ InitAllDone(u) /\ ~call[u].late

\* Thread t is in call_once for b, whose ONCE is poisoned.
AtPoisonedGuard(t, b) ==
    /\ InDeref(t, "call_once")
    /\ Top(t).b = b
    /\ ONCE[b] = "POISONED"

\* C15: when the initializer of a binding has panicked inside the guarded
\* closure, the ONCE of the binding is poisoned and stays so, VALUE stays
\* null, and the initializer is not evaluated again.  No deref of the
\* binding, init_all's included, gets to `&*VALUE` or returns: the one step a
\* deref at the poisoned guard can take is to panic.
C15_PanicPoisons ==
    /\ [](\A b \in RunNames :
            /\ behaviour[b] = "panic" => ONCE[b] = "POISONED"
            /\ ONCE[b] = "POISONED" =>
                /\ VALUE[b] = Null
                /\ evals[b] = 1
                /\ allocs[b] = 0
                /\ \A t \in Threads :
                    /\ ~Returning(t, b)
                    /\ ~DerefDone(t, b)
                    /\ ~InitAllDone(t))
    /\ [][\A b \in RunNames :
            ONCE[b] = "POISONED" =>
                /\ ONCE'[b] = "POISONED"
                /\ VALUE'[b] = Null
                /\ evals'[b] = evals[b]
                /\ \A t \in Threads :
                    (AtPoisonedGuard(t, b) /\ stack'[t] # stack[t])
                        => status'[t] = "dead"]_vars

\* The initializer of a binding has panicked, and a deref of that binding
\* made afterwards has failed at the poisoned guard.
C15_Witness ==
    \E b \in Markers(out) : \E t, u \in Threads :
        /\ t # u
        /\ behaviour[b] = "panic"
        /\ status[t] = "dead"
        /\ call[u].op = b /\ call[u].at = "POISONED"
        /\ status[u] = "dead"
        /\ VALUE[b] = Null

\* C16: a dependency cycle among initializers never yields a value.  When
\* the initializer of a binding dereferences the binding itself, or
\* dereferences a binding whose initialization depends on it in turn (on one
\* thread or across threads), the binding is never initialised: its ONCE
\* stays running (deadlock) or becomes poisoned (panic), and no deref of it
\* and no call of init_all returns.  In no interleaving does a deref get to
\* return while its VALUE is null.
C16_CycleNeverYields ==
    /\ \A b \in Markers(out) :
            OnCycle(b) =>
                /\ VALUE[b] = Null
                /\ ONCE[b] \in {"RUNNING", "POISONED"}
                /\ \A t \in Threads :
                    /\ ~Returning(t, b)
                    /\ ~DerefDone(t, b)
                    /\ ~InitAllDone(t)
    /\ \A b \in Markers(out) : \A t \in Threads :
            /\ Returning(t, b) => VALUE[b] # Null
            /\ DerefDone(t, b) => call[t].ret # Null

\* Two threads first-accessed A and B at the same time, A's initializer
\* dereferences B and B's dereferences A: each waits for the other.
C16_Witness ==
    \E a, b \in Markers(out) : \E t, u \in Threads :
        /\ a # b /\ t # u
        /\ refs[a] = b /\ refs[b] = a
        /\ RunningClosure(t, a) /\ Blocked(t, b)
        /\ RunningClosure(u, b) /\ Blocked(u, a)

\* The initializer of b dereferences a, another binding.
DependsOn(b, a) == a # b /\ refs[b] = a

\* C17: with a dependency that is not a cycle, B's initializer dereferencing
\* A, A is initialised before B is, however B is first accessed (by a deref
\* or through init_all) and however the threads interleave: B's value is
\* never stored, and B's ONCE never completed, unless A's ONCE is complete;
\* by then each of the two initializers has been evaluated once, and the
\* reference B's initializer got from A is the one to A's initialised value.
C17_DependencyOrder ==
    /\ [](\A a, b \in RunNames :
            DependsOn(b, a) =>
                /\ evals[b] = 1
                /\ (VALUE[b] # Null \/ ONCE[b] = "COMPLETE") =>
                        /\ Initialised(a)
                        /\ ONCE[a] = "COMPLETE"
                        /\ evals[a] = 1
                        /\ seen[b] = VALUE[a]
                        /\ seen[b] # Null)
    /\ [][\A a, b \in RunNames :
            (DependsOn(b, a) /\ VALUE'[b] # VALUE[b]) =>
                /\ ONCE[a] = "COMPLETE"
                /\ seen[b] = VALUE[a]]_vars

\* B, whose initializer dereferences A, was first accessed through init_all
\* while another thread dereferenced it too; both calls have returned and
\* both bindings are initialised.
C17_Witness ==
    \E a, b \in Markers(out) : \E t, u \in Threads :
        /\ DependsOn(b, a)
        /\ Initialised(a) /\ Initialised(b)
        /\ seen[b] = VALUE[a]
        /\ InitAllDone(t)
        /\ DerefDone(u, b) /\ call[u].at # "COMPLETE"

\* The initializer written at position i of the block is, at its outermost,
\* a tuple expression without elements.
OutermostEmptyTuple(blk, i) ==
    blk[i].init.variant = "Tuple" /\ Len(blk[i].init.elems) = 0

====
